---- MODULE Spec2Model ----
(***************************************************************************)
(* A model of the two Prefect pipelines of the repository:                 *)
(*   - etl_pipeline.py: the raw loads (create tables, one load per CSV     *)
(*     file submitted to the task runner) and the dimensional build        *)
(*     (create tables, dimension loads submitted to the task runner, fact  *)
(*     load called directly);                                              *)
(*   - complex_pipeline.py: the table-driven orchestrator (validation,     *)
(*     data-quality flow, incremental / full load, batch processing).      *)
(* Warehouse statements, object-store reads and artifact publishing are    *)
(* external calls: each may succeed or raise, chosen nondeterministically. *)
(***************************************************************************)
EXTENDS Integers, Sequences, FiniteSets, TLC

VARIABLES
    \* ---- etl_pipeline.py ----
    flowPc,       \* position of load_dimensional_model_flow
    submitIdx,    \* next entry of dim_transforms to submit
    etlRun,       \* number of flow runs started so far
    ddlTask,      \* task run of create_dimension_tables: [st, retries]
    ddlCache,     \* a Completed state is stored under create_dimension_tables' cache key
    dimTask,      \* task run of load_dimension_table per dimension: [st, retries]
    factTask,     \* task run of load_fact_sales: [st, retries]
    dimRows,      \* per dimension table: copies of the transform output it holds
    factRows,     \* copies of the fact query's output FACT_SALES holds
    rawPc,        \* position of the Retail ETL main_flow and of load_raw_data_flow
    rawIdx,       \* next entry of file_paths to submit
    rawDdlTask,   \* task run of create_raw_tables: [st, retries]
    rawDdlCache,  \* a Completed state is stored under create_raw_tables' cache key
    rawTask,      \* task run of load_raw_data per raw table: [st, retries]
    rawRows,      \* per raw table: copies of its CSV file's rows it holds
    \* ---- complex_pipeline.py ----
    configs,      \* main_flow's argument: the list of TableConfig
    source,       \* per table name: the rows of the object raw/<name>/<date>
    watermark,    \* the watermark store: per table name, 0 while nothing is stored
    mainPc,       \* position of the running flow
    entry,        \* which flow was invoked: "main_flow" or "incremental_load_flow"
    cfgIdx,       \* index of the loop variable config in configs
    curCfg,       \* the TableConfig being processed
    runsLeft,     \* flow runs that may still be started
    runEnd,       \* how the last flow run ended: [status, error, at]
    valTask,      \* task run of validate_source_data: [st, retries]
    valCache,     \* Completed states stored under validate_source_data's cache key
    valResult,    \* validation_results of the current config
    newData,      \* the dataset the current table's load works on
    pending,      \* batches the data iterator has not yielded yet
    batchTask,    \* task run of process_data_batch: [st, retries]
    handed,       \* batches passed to process_data_batch for the current table
    events,       \* steps invoked for the current table in this run
    succeeded,    \* fingerprints of the task calls that returned in this run
    reexecuted,   \* fingerprints whose body ran again after it had returned
    wmRead,       \* last_processed as read by the current incremental flow
    unflushed,    \* per table: rows extracted whose load did not complete
    raised,       \* what raised in the latest attempt of the running task, or "none"
    metrics,      \* process_data_batch's metrics dictionary at the end of its latest attempt
    reported,     \* per batch handed over: its latest upsert call reported success
    target,       \* per table name: the rows of the target table in the warehouse
    openConns     \* warehouse connections opened by process_data_batch and not closed

rawVars == <<rawPc, rawIdx, rawDdlTask, rawDdlCache, rawTask, rawRows>>

etlVars == <<flowPc, submitIdx, etlRun, ddlTask, ddlCache, dimTask, factTask,
             dimRows, factRows, rawVars>>

pipeVars == <<configs, source, watermark, mainPc, entry, cfgIdx, curCfg, runsLeft,
              runEnd, valTask, valCache, valResult, newData, pending, batchTask,
              handed, events, succeeded, reexecuted, wmRead, unflushed, raised,
              metrics, reported, target, openConns>>

vars == <<etlVars, pipeVars>>

-----------------------------------------------------------------------------
(* Bounds and program constants                                            *)

\* number of scheduled runs of the retail ETL flow that are explored
MaxEtlRuns == 2

\* number of runs of the Retail ETL main_flow that are explored
MaxRetailRuns == 1

\* @task(retries=3): retries after the first attempt
Retries == 3

\* keys of dim_transforms, in dict order
DimNames == <<"DIM_PRODUCTS", "DIM_LOCATIONS", "DIM_CUSTOMERS">>

Dims == {DimNames[i] : i \in 1..Len(DimNames)}

\* keys of file_paths, in dict order
RawNames == <<"PRODUCTS", "LOCATIONS", "CUSTOMERS", "ORDERS", "SALES">>

RawTables == {RawNames[i] : i \in 1..Len(RawNames)}

-----------------------------------------------------------------------------
(* Prefect task runs                                                       *)

\* a task run that has not been created
NoTask == [st |-> "unsubmitted", retries |-> 0]

\* a task run created by a call or by .submit(): Pending, first attempt ahead
NewTask == [st |-> "ready", retries |-> 0]

\* a task run that has completed; the retries it used are of no further use
Done == [st |-> "completed", retries |-> 0]

\* state of a task run after an attempt raised: AwaitingRetry while retries
\* are left, Failed otherwise
AfterRaise(t) ==
    IF t.retries < Retries
    THEN [st |-> "ready", retries |-> t.retries + 1]
    ELSE [t EXCEPT !.st = "failed"]

\* the task body has run at least one statement in this flow run
HasExecuted(t) == t.st \in {"truncated", "completed", "failed"} \/ t.retries > 0

-----------------------------------------------------------------------------
(* etl_pipeline.py: load_dimensional_model_flow                            *)

\* a scheduled run of the flow starts; tables and the result cache persist
load_dimensional_model_flow_start ==
    /\ flowPc = "idle"
    /\ etlRun < MaxEtlRuns
    /\ etlRun' = etlRun + 1
    /\ flowPc' = "create_dimension_tables"
    /\ submitIdx' = 1
    /\ ddlTask' = NewTask
    /\ dimTask' = [d \in Dims |-> NoTask]
    /\ factTask' = NoTask
    /\ UNCHANGED <<ddlCache, dimRows, factRows>>
    /\ UNCHANGED rawVars
    /\ UNCHANGED pipeVars

\* the failure of the creation task swallowed: the flow goes on to its loads
FlowAfterCreate_Ignored(t, pc) == IF t.st = "failed" THEN "submit" ELSE pc

\* create_raw_tables(connector) / create_dimension_tables(connector) called
\* directly as the flow's first statement: the flow function raises when the
\* task run ends Failed, and stays at the call while a retry is ahead
FlowAfterCreate(t, pc) == IF t.st = "failed" THEN "raised" ELSE pc

\* create_dimension_tables(connector): cached on its inputs, retried on error
create_dimension_tables ==
    /\ flowPc = "create_dimension_tables"
    /\ ddlTask.st = "ready"
    /\ \/ /\ ddlCache                      \* Cached: the body does not run
          /\ ddlTask' = [ddlTask EXCEPT !.st = "cached"]
          /\ flowPc' = "submit"
          /\ UNCHANGED ddlCache
       \/ /\ ~ddlCache                     \* CREATE TABLE IF NOT EXISTS ... succeed
          /\ ddlTask' = Done
          /\ ddlCache' = TRUE
          /\ flowPc' = "submit"
       \/ /\ ~ddlCache                     \* a statement raises
          /\ ddlTask' = AfterRaise(ddlTask)
          /\ flowPc' = FlowAfterCreate(ddlTask', flowPc)
          /\ UNCHANGED ddlCache
    /\ UNCHANGED <<submitIdx, etlRun, dimTask, factTask, dimRows, factRows>>
    /\ UNCHANGED rawVars
    /\ UNCHANGED pipeVars

\* for dim_name, transform_query in dim_transforms.items():
\*     load_dimension_table.submit(...)
\* the future is dropped: nothing waits for it
submit_dimension ==
    /\ flowPc = "submit"
    /\ submitIdx <= Len(DimNames)
    /\ dimTask' = [dimTask EXCEPT ![DimNames[submitIdx]] = NewTask]
    /\ submitIdx' = submitIdx + 1
    /\ UNCHANGED <<flowPc, etlRun, ddlTask, ddlCache, factTask, dimRows, factRows>>
    /\ UNCHANGED rawVars
    /\ UNCHANGED pipeVars

\* load_fact_sales(connector): called right after the submit loop
call_load_fact_sales ==
    /\ flowPc = "submit"
    /\ submitIdx > Len(DimNames)
    /\ flowPc' = "load_fact_sales"
    /\ factTask' = NewTask
    /\ UNCHANGED <<submitIdx, etlRun, ddlTask, ddlCache, dimTask, dimRows, factRows>>
    /\ UNCHANGED rawVars
    /\ UNCHANGED pipeVars

\* the statement left out: the rows of earlier loads stay in the table
TruncateTable_Skipped(copies) == copies

\* load_dimension_table, line 186: TRUNCATE TABLE <dim> leaves the table empty
TruncateTable(copies) == 0

\* load_dimension_table, first statement: TRUNCATE TABLE <dim>
load_dimension_table_truncate(d) ==
    /\ dimTask[d].st = "ready"
    /\ \/ /\ dimTask' = [dimTask EXCEPT ![d].st = "truncated"]
          /\ dimRows' = [dimRows EXCEPT ![d] = TruncateTable(@)]
       \/ /\ dimTask' = [dimTask EXCEPT ![d] = AfterRaise(dimTask[d])]
          /\ UNCHANGED dimRows
    /\ UNCHANGED <<flowPc, submitIdx, etlRun, ddlTask, ddlCache, factTask, factRows>>
    /\ UNCHANGED rawVars
    /\ UNCHANGED pipeVars

\* load_dimension_table, second statement: INSERT INTO <dim> SELECT ... FROM raw
load_dimension_table_insert(d) ==
    /\ dimTask[d].st = "truncated"
    /\ \/ /\ dimTask' = [dimTask EXCEPT ![d] = Done]
          /\ dimRows' = [dimRows EXCEPT ![d] = @ + 1]
       \/ /\ dimTask' = [dimTask EXCEPT ![d] = AfterRaise(dimTask[d])]
          /\ UNCHANGED dimRows
    /\ UNCHANGED <<flowPc, submitIdx, etlRun, ddlTask, ddlCache, factTask, factRows>>
    /\ UNCHANGED rawVars
    /\ UNCHANGED pipeVars

\* the flow function raises when the task it called ends Failed
FlowAfterFact(t) ==
    IF t.st = "failed" THEN "raised"
    ELSE IF t.st = "completed" THEN "returned"
    ELSE "load_fact_sales"

\* load_fact_sales, first statement: TRUNCATE TABLE FACT_SALES
load_fact_sales_truncate ==
    /\ flowPc = "load_fact_sales"
    /\ factTask.st = "ready"
    /\ \/ /\ factTask' = [factTask EXCEPT !.st = "truncated"]
          /\ factRows' = 0
       \/ /\ factTask' = AfterRaise(factTask)
          /\ UNCHANGED factRows
    /\ flowPc' = FlowAfterFact(factTask')
    /\ UNCHANGED <<submitIdx, etlRun, ddlTask, ddlCache, dimTask, dimRows>>
    /\ UNCHANGED rawVars
    /\ UNCHANGED pipeVars

\* load_fact_sales, second statement: INSERT INTO FACT_SALES SELECT ... JOIN DIM_*
load_fact_sales_insert ==
    /\ flowPc = "load_fact_sales"
    /\ factTask.st = "truncated"
    /\ \/ /\ factTask' = Done
          /\ factRows' = factRows + 1
       \/ /\ factTask' = AfterRaise(factTask)
          /\ UNCHANGED factRows
    /\ flowPc' = FlowAfterFact(factTask')
    /\ UNCHANGED <<submitIdx, etlRun, ddlTask, ddlCache, dimTask, dimRows>>
    /\ UNCHANGED rawVars
    /\ UNCHANGED pipeVars

\* the flow run ends once the flow function is over and every submitted task
\* run is terminal; the deployment's schedule may start the next run
load_dimensional_model_flow_end ==
    /\ flowPc \in {"returned", "raised"}
    /\ \A d \in Dims : dimTask[d].st \in {"unsubmitted", "completed", "failed"}
    /\ flowPc' = "idle"
    /\ UNCHANGED <<submitIdx, etlRun, ddlTask, ddlCache, dimTask, factTask,
                   dimRows, factRows>>
    /\ UNCHANGED rawVars
    /\ UNCHANGED pipeVars

-----------------------------------------------------------------------------
(* etl_pipeline.py: main_flow and load_raw_data_flow                       *)

\* a scheduled run of the Retail ETL main_flow starts and calls
\* load_raw_data_flow; tables and the result cache persist
etl_main_flow ==
    /\ rawPc \in {"idle", "returned", "raised"}
    /\ flowPc = "idle"
    /\ etlRun < MaxRetailRuns
    /\ etlRun' = etlRun + 1
    /\ rawPc' = "create_raw_tables"
    /\ rawIdx' = 1
    /\ rawDdlTask' = NewTask
    /\ rawTask' = [t \in RawTables |-> NoTask]
    /\ ddlTask' = NoTask
    /\ dimTask' = [d \in Dims |-> NoTask]
    /\ factTask' = NoTask
    /\ UNCHANGED <<flowPc, submitIdx, ddlCache, dimRows, factRows, rawDdlCache,
                   rawRows>>
    /\ UNCHANGED pipeVars

\* load_raw_data_flow(connector, file_paths) run as a flow of its own
load_raw_data_flow_start ==
    /\ rawPc \in {"idle", "raw_loaded", "raised"}
    /\ etlRun < MaxEtlRuns
    /\ etlRun' = etlRun + 1
    /\ rawPc' = "create_raw_tables"
    /\ rawIdx' = 1
    /\ rawDdlTask' = NewTask
    /\ rawTask' = [t \in RawTables |-> NoTask]
    /\ UNCHANGED <<flowPc, submitIdx, ddlTask, ddlCache, dimTask, factTask, dimRows,
                   factRows, rawDdlCache, rawRows>>
    /\ UNCHANGED pipeVars

\* create_raw_tables(connector): cached on its inputs, retried on error
create_raw_tables ==
    /\ rawPc = "create_raw_tables"
    /\ rawDdlTask.st = "ready"
    /\ \/ /\ rawDdlCache                   \* Cached: the body does not run
          /\ rawDdlTask' = [rawDdlTask EXCEPT !.st = "cached"]
          /\ rawPc' = "submit"
          /\ UNCHANGED rawDdlCache
       \/ /\ ~rawDdlCache                  \* CREATE TABLE IF NOT EXISTS ... succeed
          /\ rawDdlTask' = Done
          /\ rawDdlCache' = TRUE
          /\ rawPc' = "submit"
       \/ /\ ~rawDdlCache                  \* a statement raises
          /\ rawDdlTask' = AfterRaise(rawDdlTask)
          /\ rawPc' = FlowAfterCreate(rawDdlTask', rawPc)
          /\ UNCHANGED rawDdlCache
    /\ UNCHANGED <<rawIdx, rawTask, rawRows>>
    /\ UNCHANGED <<flowPc, submitIdx, etlRun, ddlTask, ddlCache, dimTask, factTask,
                   dimRows, factRows>>
    /\ UNCHANGED pipeVars

\* for table_name, file_path in file_paths.items():
\*     load_raw_data.submit(connector, file_path, table_name)
submit_raw_load ==
    /\ rawPc = "submit"
    /\ rawIdx <= Len(RawNames)
    /\ rawTask' = [rawTask EXCEPT ![RawNames[rawIdx]] = NewTask]
    /\ rawIdx' = rawIdx + 1
    /\ UNCHANGED <<rawPc, rawDdlTask, rawDdlCache, rawRows>>
    /\ UNCHANGED <<flowPc, submitIdx, etlRun, ddlTask, ddlCache, dimTask, factTask,
                   dimRows, factRows>>
    /\ UNCHANGED pipeVars

\* write_pandas(conn, df, table_name, ...): the rows of the frame are appended
\* to the table
write_pandas(copies) == copies + 1

\* load_raw_data(connector, file_path, table_name): one attempt of the task run
load_raw_data(t) ==
    /\ rawTask[t].st = "ready"
    /\ \/ /\ rawTask' = [rawTask EXCEPT ![t] = Done]
          /\ rawRows' = [rawRows EXCEPT ![t] = write_pandas(@)]
       \/ /\ rawTask' = [rawTask EXCEPT ![t] = AfterRaise(rawTask[t])]
          /\ UNCHANGED rawRows                \* read_csv or write_pandas raises,
                                              \* or success is false
    /\ UNCHANGED <<rawPc, rawIdx, rawDdlTask, rawDdlCache>>
    /\ UNCHANGED <<flowPc, submitIdx, etlRun, ddlTask, ddlCache, dimTask, factTask,
                   dimRows, factRows>>
    /\ UNCHANGED pipeVars

\* the flow run ends although task runs it submitted are still running
RawFlowMayEnd_NoWait == TRUE

\* a flow run ends once every task run it submitted is terminal
RawFlowMayEnd == \A t \in RawTables : rawTask[t].st \in {"completed", "failed"}

\* the flow function returned None: the flow run is Failed when one of its
\* task runs is, and the call of the flow in main_flow raises
RawFlowState ==
    IF \E t \in RawTables : rawTask[t].st = "failed" THEN "raised" ELSE "raw_loaded"

\* load_raw_data_flow is over: main_flow goes on or raises
load_raw_data_flow_end ==
    /\ rawPc = "submit"
    /\ rawIdx > Len(RawNames)
    /\ RawFlowMayEnd
    /\ rawPc' = RawFlowState
    /\ UNCHANGED <<rawIdx, rawDdlTask, rawDdlCache, rawTask, rawRows>>
    /\ UNCHANGED <<flowPc, submitIdx, etlRun, ddlTask, ddlCache, dimTask, factTask,
                   dimRows, factRows>>
    /\ UNCHANGED pipeVars

\* main_flow, line 308: load_dimensional_model_flow(connector)
etl_main_flow_dimensional ==
    /\ rawPc = "raw_loaded"
    /\ flowPc = "idle"
    /\ rawPc' = "dimensional"
    /\ flowPc' = "create_dimension_tables"
    /\ submitIdx' = 1
    /\ ddlTask' = NewTask
    /\ UNCHANGED <<etlRun, ddlCache, dimTask, factTask, dimRows, factRows>>
    /\ UNCHANGED <<rawIdx, rawDdlTask, rawDdlCache, rawTask, rawRows>>
    /\ UNCHANGED pipeVars

\* main_flow is over once load_dimensional_model_flow's run has ended
etl_main_flow_end ==
    /\ rawPc = "dimensional"
    /\ flowPc = "idle"
    /\ rawPc' = "returned"
    /\ UNCHANGED <<rawIdx, rawDdlTask, rawDdlCache, rawTask, rawRows>>
    /\ UNCHANGED <<flowPc, submitIdx, etlRun, ddlTask, ddlCache, dimTask, factTask,
                   dimRows, factRows>>
    /\ UNCHANGED pipeVars

\* the exception the flow run surfaces, if any
FlowError ==
    IF flowPc = "raised" THEN "TaskFailed" ELSE "none"

InitEtl ==
    /\ flowPc = "idle"
    /\ submitIdx = 1
    /\ etlRun = 0
    /\ ddlTask = NoTask
    /\ ddlCache = FALSE
    /\ dimTask = [d \in Dims |-> NoTask]
    /\ factTask = NoTask
    /\ dimRows = [d \in Dims |-> 0]
    /\ factRows = 0
    /\ rawPc = "idle"
    /\ rawIdx = 1
    /\ rawDdlTask = NoTask
    /\ rawDdlCache = FALSE
    /\ rawTask = [t \in RawTables |-> NoTask]
    /\ rawRows = [t \in RawTables |-> 0]

NextEtl ==
    \/ load_dimensional_model_flow_start
    \/ create_dimension_tables
    \/ submit_dimension
    \/ call_load_fact_sales
    \/ \E d \in Dims : load_dimension_table_truncate(d)
    \/ \E d \in Dims : load_dimension_table_insert(d)
    \/ load_fact_sales_truncate
    \/ load_fact_sales_insert
    \/ load_dimensional_model_flow_end

\* the warehouse and the result cache as a complete run of main_flow leaves them
InitLoaded ==
    /\ flowPc = "idle"
    /\ submitIdx = 1
    /\ etlRun = 0
    /\ ddlTask = NoTask
    /\ ddlCache = TRUE
    /\ dimTask = [d \in Dims |-> NoTask]
    /\ factTask = NoTask
    /\ dimRows = [d \in Dims |-> 1]
    /\ factRows = 1
    /\ rawPc = "idle"
    /\ rawIdx = 1
    /\ rawDdlTask = NoTask
    /\ rawDdlCache = TRUE
    /\ rawTask = [t \in RawTables |-> NoTask]
    /\ rawRows = [t \in RawTables |-> 1]

\* load_raw_data_flow run on its own
NextRaw ==
    \/ load_raw_data_flow_start
    \/ create_raw_tables
    \/ submit_raw_load
    \/ \E t \in RawTables : load_raw_data(t)
    \/ load_raw_data_flow_end

\* the Retail ETL main_flow: raw loads, then the dimensional build
NextRetail ==
    \/ etl_main_flow
    \/ create_raw_tables
    \/ submit_raw_load
    \/ \E t \in RawTables : load_raw_data(t)
    \/ load_raw_data_flow_end
    \/ etl_main_flow_dimensional
    \/ create_dimension_tables
    \/ submit_dimension
    \/ call_load_fact_sales
    \/ \E d \in Dims : load_dimension_table_truncate(d)
    \/ \E d \in Dims : load_dimension_table_insert(d)
    \/ load_fact_sales_truncate
    \/ load_fact_sales_insert
    \/ load_dimensional_model_flow_end
    \/ etl_main_flow_end


-----------------------------------------------------------------------------
(* complex_pipeline.py: data                                               *)

\* rows per source object
MaxRows == 2

\* values of the incremental column are 1..MaxTs
MaxTs == 2

\* batch_size is 1..MaxBatch
MaxBatch == 2

\* length of the configs list
MaxConfigs == 2

\* number of runs of the incremental flow that are explored
MaxRuns == 2

\* number of runs of main_flow over a list of configs that are explored
MaxMainRuns == 1

\* df_sample = table.to_pandas().head(1000)
SampleRows == 1000

\* the names of the configs built under __main__
TableNames == {"products", "customers"}

\* TableConfig.incremental_column: None, or a column name
IncColumns == {"none", "updated_at"}

\* TableConfig(name, pk_columns, partition_columns, incremental_column, batch_size);
\* every table declares one primary-key column, row.pk is its value in a row
TableConfig ==
    [name : TableNames, incremental_column : IncColumns, batch_size : 1..MaxBatch]

\* if config.incremental_column: / if not table_config.incremental_column:
HasIncremental(cfg) == cfg.incremental_column # "none"

\* the rows of a source object: id is the row's position in the object, ts its
\* incremental-column value, pk its primary-key value ("null" when missing)
MakeRows(n, f) == [i \in 1..n |-> [id |-> i, ts |-> f[i][1], pk |-> f[i][2]]]

Datasets(maxRows, tsValues, pkValues) ==
    UNION {{MakeRows(n, f) : f \in [1..n -> tsValues \X pkValues]} : n \in 0..maxRows}

RowSet(d) == {d[i] : i \in 1..Len(d)}

MinOf(a, b) == IF a < b THEN a ELSE b

\* DataFrame.head(n)
DfHead(table, n) == SubSeq(table, 1, MinOf(Len(table), n))

\* the row count taken from the sample instead of the table
ValidationResults_SampleCount(table, cfg) ==
    LET df_sample == DfHead(table, SampleRows) IN
    [total_rows |-> Len(df_sample),
     missing_pk |-> \E i \in 1..Len(df_sample) : df_sample[i].pk = "null",
     data_types_match |-> TRUE,
     null_check_passed |-> TRUE]

\* validate_source_data, the body after the read: the result dictionary
ValidationResults(table, cfg) ==
    LET df_sample == DfHead(table, SampleRows) IN
    [total_rows |-> Len(table),
     missing_pk |-> \E i \in 1..Len(df_sample) : df_sample[i].pk = "null",
     data_types_match |-> TRUE,
     null_check_passed |-> TRUE]

NoResult ==
    [total_rows |-> 0, missing_pk |-> FALSE, data_types_match |-> FALSE,
     null_check_passed |-> FALSE]

\* the watermark store's get: the stored value, 0 (before every value) when absent
get_last_processed_value(store, cfg) == store[cfg.name]

\* rows whose incremental column exceeds the watermark, in source order
load_incremental_data(table, last_processed) ==
    SelectSeq(table, LAMBDA r : r.ts > last_processed)

\* the iterator over the source object: consecutive batches of batch_size rows
RECURSIVE get_data_iterator(_, _)
get_data_iterator(table, batch_size) ==
    IF Len(table) = 0 THEN <<>>
    ELSE IF Len(table) <= batch_size THEN <<table>>
    ELSE <<SubSeq(table, 1, batch_size)>>
         \o get_data_iterator(SubSeq(table, batch_size + 1, Len(table)), batch_size)

\* task_input_hash: the cache key of a task call is its resolved arguments
\* (s3_path is a function of the config's name and of the run's date)
Fingerprint(step, cfg, data) == [step |-> step, cfg |-> cfg, data |-> data]

NoEnd == [status |-> "none", error |-> "none", at |-> 0]

\* the flow function raised: the flow run ends Failed
FlowRaised(err) == [status |-> "failed", error |-> err, at |-> cfgIdx]

\* the incremental flow is the one loading the current table
InIncremental == "incremental_load_flow" \in events

\* process_data_batch, line 114: metrics = {"processed": 0, "errors": 0}
NoMetrics == [processed |-> 0, errors |-> 0]

\* process_data_batch, line 129: metrics["processed"] = len(batch_df), whatever
\* upsert_to_snowflake returned
MetricsAfterUpsert(m, batch_df, success) == [m EXCEPT !.processed = Len(batch_df)]

\* process_data_batch, line 137: metrics["errors"] = len(batch_df)
MetricsAfterError(m, batch_df) == [m EXCEPT !.errors = Len(batch_df)]

\* the warehouse's upsert keyed by the primary key: rows matching the key are
\* replaced, new rows are inserted
upsert_to_snowflake(table, batch_df) == table \cup RowSet(batch_df)

-----------------------------------------------------------------------------
(* complex_pipeline.py: flows and tasks                                    *)

\* state of a flow run that has just been created
FlowRunStarts ==
    /\ runsLeft' = runsLeft - 1
    /\ runEnd' = NoEnd
    /\ valResult' = NoResult
    /\ newData' = <<>>
    /\ pending' = <<>>
    /\ batchTask' = NoTask
    /\ handed' = <<>>
    /\ events' = {}
    /\ succeeded' = {}
    /\ reexecuted' = {}
    /\ wmRead' = 0
    /\ raised' = "none"
    /\ metrics' = NoMetrics
    /\ reported' = <<>>
    /\ UNCHANGED <<configs, source, watermark, valCache, unflushed, target>>

\* main_flow(configs): a run starts with the first config
main_flow_start ==
    /\ mainPc = "idle"
    /\ runsLeft > 0
    /\ entry' = "main_flow"
    /\ cfgIdx' = 1
    /\ curCfg' = configs[1]
    /\ mainPc' = "validate"
    /\ valTask' = NewTask
    /\ FlowRunStarts
    /\ UNCHANGED openConns
    /\ UNCHANGED etlVars

\* incremental_load_flow(table_config, ...) invoked as a flow of its own
invoke_incremental_load_flow(cfg) ==
    /\ mainPc = "idle"
    /\ runsLeft > 0
    /\ entry' = "incremental_load_flow"
    /\ cfgIdx' = 1
    /\ curCfg' = cfg
    /\ mainPc' = "incremental"
    /\ valTask' = NoTask
    /\ FlowRunStarts
    /\ UNCHANGED openConns
    /\ UNCHANGED etlVars

\* the calls inside validate_source_data's try block that reach an external
\* service: the object read (lines 66-67) and the report artifact (lines 84-93)
ValidationCalls == {"download_object", "create_markdown_artifact"}

\* validate_source_data: one attempt of the task run
validate_source_data ==
    LET fp == Fingerprint("validate_source_data", curCfg, <<>>) IN
    /\ mainPc = "validate"
    /\ valTask.st = "ready"
    /\ events' = events \cup {"validate_source_data"}
    /\ \/ /\ \E c \in valCache : c.key = fp     \* Cached: the body does not run
          /\ valResult' = (CHOOSE c \in valCache : c.key = fp).result
          /\ valTask' = [valTask EXCEPT !.st = "cached"]
          /\ mainPc' = "quality"
          /\ succeeded' = succeeded \cup {fp}
          /\ raised' = "none"
          /\ UNCHANGED <<valCache, reexecuted, runEnd>>
       \/ /\ ~\E c \in valCache : c.key = fp    \* the body returns
          /\ valResult' = ValidationResults(source[curCfg.name], curCfg)
          /\ valCache' = valCache \cup {[key |-> fp, result |-> valResult']}
          /\ valTask' = [valTask EXCEPT !.st = "completed"]
          /\ mainPc' = "quality"
          /\ succeeded' = succeeded \cup {fp}
          /\ reexecuted' = IF fp \in succeeded THEN reexecuted \cup {fp} ELSE reexecuted
          /\ raised' = "none"
          /\ UNCHANGED runEnd
       \/ /\ ~\E c \in valCache : c.key = fp    \* a call inside the try raises:
          /\ \E call \in ValidationCalls :      \* raise Failed(...), line 99
                raised' = call
          /\ valTask' = AfterRaise(valTask)
          /\ reexecuted' = IF fp \in succeeded THEN reexecuted \cup {fp} ELSE reexecuted
          /\ IF valTask'.st = "failed"
             THEN mainPc' = "idle" /\ runEnd' = FlowRaised("Failed")
             ELSE UNCHANGED <<mainPc, runEnd>>
          /\ UNCHANGED <<valResult, valCache, succeeded>>
    /\ UNCHANGED <<configs, source, watermark, entry, cfgIdx, curCfg, runsLeft, newData,
                   pending, batchTask, handed, wmRead, unflushed, metrics, reported,
                   target>>
    /\ UNCHANGED openConns
    /\ UNCHANGED etlVars

\* main_flow, line 232: if validation_results["null_check_passed"]
AfterQuality(validation_results) ==
    IF validation_results.null_check_passed THEN "load" ELSE "advance"

\* data_quality_flow(config, validation_results): publishes a report when the
\* null check did not pass; the artifact call may raise
data_quality_flow ==
    /\ mainPc = "quality"
    /\ \E published \in BOOLEAN :
         IF ~valResult.null_check_passed
         THEN /\ events' = events \cup {"data_quality_flow", "dq-report"}
              /\ IF published
                 THEN mainPc' = AfterQuality(valResult) /\ UNCHANGED runEnd
                 ELSE mainPc' = "idle" /\ runEnd' = FlowRaised("Failed")
         ELSE /\ events' = events \cup {"data_quality_flow"}
              /\ mainPc' = AfterQuality(valResult)
              /\ UNCHANGED runEnd
    /\ UNCHANGED <<configs, source, watermark, entry, cfgIdx, curCfg, runsLeft, valTask,
                   valCache, valResult, newData, pending, batchTask, handed, succeeded,
                   reexecuted, wmRead, unflushed>>
    /\ UNCHANGED <<raised, metrics, reported, target>>
    /\ UNCHANGED openConns
    /\ UNCHANGED etlVars

\* main_flow, lines 234-236: incremental when the column is configured, else full
LoadPath(cfg) == IF HasIncremental(cfg) THEN "incremental" ELSE "full"

main_flow_branch ==
    /\ mainPc = "load"
    /\ mainPc' = LoadPath(curCfg)
    /\ UNCHANGED <<configs, source, watermark, entry, cfgIdx, curCfg, runsLeft, runEnd,
                   valTask, valCache, valResult, newData, pending, batchTask, handed,
                   events, succeeded, reexecuted, wmRead, unflushed>>
    /\ UNCHANGED <<raised, metrics, reported, target>>
    /\ UNCHANGED openConns
    /\ UNCHANGED etlVars

\* the guard left out: every config passes
IncrementalGuard_Missing(cfg) == FALSE

\* incremental_load_flow, line 182: the guard on the configuration
IncrementalGuard(cfg) == ~HasIncremental(cfg)

\* the cursor dropped: extraction always starts from the beginning of time
ExtractionCursor_Sentinel(last_processed) == 0

\* incremental_load_flow, line 193: the cursor handed to load_incremental_data
ExtractionCursor(last_processed) == last_processed

\* the greatest incremental-column value of a dataset, 0 for the empty one
RECURSIVE MaxTsOf(_)
MaxTsOf(d) ==
    IF d = <<>> THEN 0
    ELSE LET m == MaxTsOf(Tail(d)) IN IF Head(d).ts > m THEN Head(d).ts ELSE m

\* the watermark advanced as soon as the rows are extracted, before their load
StoreAfterExtraction_Eager(store, cfg, new_data) ==
    IF new_data = <<>> THEN store
    ELSE [store EXCEPT ![cfg.name] = MaxTsOf(new_data)]

\* incremental_load_flow, lines 190-196: the store between extraction and load
StoreAfterExtraction(store, cfg, new_data) == store

\* incremental_load_flow, line 197: the store once process_data_batch returned
StoreAfterLoad(store, cfg, new_data) == store

\* every extraction is handed to the loader, the empty one as well
ShouldProcess_Always(new_data) == TRUE

\* incremental_load_flow, line 196: if not new_data.empty
ShouldProcess(new_data) == new_data # <<>>

\* incremental_load_flow up to the call of process_data_batch
incremental_load_flow ==
    /\ mainPc = "incremental"
    /\ IF IncrementalGuard(curCfg)
       THEN /\ events' = events \cup {"incremental_load_flow"}
            /\ mainPc' = "idle"
            /\ runEnd' = FlowRaised("ValueError")
            /\ UNCHANGED <<watermark, newData, batchTask, handed, wmRead, reported>>
       ELSE LET last_processed == get_last_processed_value(watermark, curCfg)
                new_data == load_incremental_data(source[curCfg.name],
                                                  ExtractionCursor(last_processed))
            IN  /\ wmRead' = last_processed
                /\ newData' = new_data
                /\ watermark' = StoreAfterExtraction(watermark, curCfg, new_data)
                /\ UNCHANGED runEnd
                /\ IF ShouldProcess(new_data)
                   THEN /\ events' = events \cup {"incremental_load_flow",
                              "get_last_processed_value", "load_incremental_data",
                              "process_data_batch"}
                        /\ handed' = <<new_data>>
                        /\ reported' = <<FALSE>>
                        /\ batchTask' = NewTask
                        /\ mainPc' = "batch"
                   ELSE /\ events' = events \cup {"incremental_load_flow",
                              "get_last_processed_value", "load_incremental_data"}
                        /\ mainPc' = "advance"
                        /\ UNCHANGED <<handed, batchTask, reported>>
    /\ UNCHANGED <<configs, source, entry, cfgIdx, curCfg, runsLeft, valTask, valCache,
                   valResult, pending, succeeded, reexecuted, unflushed, raised, metrics,
                   target>>
    /\ UNCHANGED openConns
    /\ UNCHANGED etlVars

\* main_flow, lines 238-242: the full load obtains the batch iterator
main_flow_full_load ==
    /\ mainPc = "full"
    /\ newData' = source[curCfg.name]
    /\ pending' = get_data_iterator(source[curCfg.name], curCfg.batch_size)
    /\ events' = events \cup {"get_data_iterator"}
    /\ mainPc' = "iterate"
    /\ UNCHANGED <<configs, source, watermark, entry, cfgIdx, curCfg, runsLeft, runEnd,
                   valTask, valCache, valResult, batchTask, handed, succeeded,
                   reexecuted, wmRead, unflushed>>
    /\ UNCHANGED <<raised, metrics, reported, target>>
    /\ UNCHANGED openConns
    /\ UNCHANGED etlVars

\* main_flow, lines 244-245: async for batch in data_iterator
main_flow_next_batch ==
    /\ mainPc = "iterate"
    /\ IF pending = <<>>
       THEN /\ mainPc' = "advance"
            /\ UNCHANGED <<pending, handed, batchTask, events, reported>>
       ELSE /\ handed' = Append(handed, Head(pending))
            /\ reported' = Append(reported, FALSE)
            /\ pending' = Tail(pending)
            /\ batchTask' = NewTask
            /\ events' = events \cup {"process_data_batch"}
            /\ mainPc' = "batch"
    /\ UNCHANGED <<configs, source, watermark, entry, cfgIdx, curCfg, runsLeft, runEnd,
                   valTask, valCache, valResult, newData, succeeded, reexecuted,
                   wmRead, unflushed, raised, metrics, target>>
    /\ UNCHANGED openConns
    /\ UNCHANGED etlVars

\* the calls of process_data_batch that reach an external service:
\* get_connection (line 41, before the try block), then upsert_to_snowflake
\* (line 122) and emit_batch_metrics (line 132) inside it
BatchCalls == <<"get_connection", "upsert_to_snowflake", "emit_batch_metrics">>

\* only an attempt that returns closes its connection
ClosedOnExit_ReturnOnly(raisedInside) == IF raisedInside THEN 0 ELSE 1

\* snowflake_connection, lines 42-45: try: yield conn / finally: conn.close()
\* the connections closed when the body of the async with is left, whether it
\* returned or raised
ClosedOnExit(raisedInside) == 1

\* process_data_batch: one attempt of the task run (no cache_key_fn).
\* The attempt runs up to the call that raises, or through all of them;
\* success is what upsert_to_snowflake returns when it returns.
process_data_batch ==
    LET batch_df == handed[Len(handed)]
        fp == Fingerprint("process_data_batch", curCfg, batch_df)
        name == curCfg.name
    IN
    /\ mainPc = "batch"
    /\ batchTask.st = "ready"
    /\ reexecuted' = IF fp \in succeeded THEN reexecuted \cup {fp} ELSE reexecuted
    /\ \E success \in BOOLEAN :
        LET upserted == IF success THEN upsert_to_snowflake(target[name], batch_df)
                        ELSE target[name]
            counted == MetricsAfterUpsert(NoMetrics, batch_df, success)
        IN
        \/ /\ batchTask' = [batchTask EXCEPT !.st = "completed"]   \* return metrics
           /\ events' = events \cup {"get_connection", "upsert_to_snowflake"}
           /\ target' = [target EXCEPT ![name] = upserted]
           /\ reported' = [reported EXCEPT ![Len(handed)] = success]
           /\ metrics' = counted
           /\ raised' = "none"
           /\ openConns' = openConns + 1 - ClosedOnExit(FALSE)
           /\ succeeded' = succeeded \cup {fp}
           /\ IF InIncremental
              THEN /\ mainPc' = "advance"
                   /\ watermark' = StoreAfterLoad(watermark, curCfg, batch_df)
                   /\ unflushed' = [unflushed EXCEPT ![name] = @ \ RowSet(batch_df)]
              ELSE /\ mainPc' = "iterate"
                   /\ UNCHANGED <<watermark, unflushed>>
           /\ UNCHANGED runEnd
        \/ /\ \E k \in 1..Len(BatchCalls) :                       \* BatchCalls[k] raises
                /\ raised' = BatchCalls[k]
                /\ events' = IF k = 1 THEN events
                             ELSE events \cup {"get_connection", "upsert_to_snowflake"}
                /\ target' = IF k = 3 THEN [target EXCEPT ![name] = upserted] ELSE target
                /\ reported' = IF k = 1 THEN reported
                               ELSE [reported EXCEPT ![Len(handed)] = (k = 3 /\ success)]
                /\ openConns' = IF k = 1 THEN openConns
                                ELSE openConns + 1 - ClosedOnExit(TRUE)
                /\ metrics' = IF k = 1 THEN NoMetrics
                              ELSE IF k = 2 THEN MetricsAfterError(NoMetrics, batch_df)
                              ELSE MetricsAfterError(counted, batch_df)
           /\ batchTask' = AfterRaise(batchTask)
           /\ IF batchTask'.st = "failed"
              THEN /\ mainPc' = "idle"
                   /\ runEnd' = FlowRaised("Failed")
                   /\ unflushed' = IF InIncremental
                                   THEN [unflushed EXCEPT ![name] = @ \cup RowSet(batch_df)]
                                   ELSE unflushed
              ELSE UNCHANGED <<mainPc, runEnd, unflushed>>
           /\ UNCHANGED <<watermark, succeeded>>
    /\ UNCHANGED <<configs, source, entry, cfgIdx, curCfg, runsLeft, valTask, valCache,
                   valResult, newData, pending, handed, wmRead>>
    /\ UNCHANGED etlVars

\* main_flow, line 219: the loop takes the next config
main_flow_next_config ==
    /\ mainPc = "advance"
    /\ entry = "main_flow"
    /\ cfgIdx < Len(configs)
    /\ cfgIdx' = cfgIdx + 1
    /\ curCfg' = configs[cfgIdx + 1]
    /\ mainPc' = "validate"
    /\ valTask' = NewTask
    /\ valResult' = NoResult
    /\ newData' = <<>>
    /\ pending' = <<>>
    /\ batchTask' = NoTask
    /\ handed' = <<>>
    /\ events' = {}
    /\ wmRead' = 0
    /\ raised' = "none"
    /\ metrics' = NoMetrics
    /\ reported' = <<>>
    /\ UNCHANGED <<configs, source, watermark, entry, runsLeft, runEnd, valCache,
                   succeeded, reexecuted, unflushed, target>>
    /\ UNCHANGED openConns
    /\ UNCHANGED etlVars

\* the flow function returns: the flow run ends Completed
flow_return ==
    /\ mainPc = "advance"
    /\ entry = "main_flow" => cfgIdx = Len(configs)
    /\ mainPc' = "idle"
    /\ runEnd' = [status |-> "completed", error |-> "none", at |-> cfgIdx]
    /\ UNCHANGED <<configs, source, watermark, entry, cfgIdx, curCfg, runsLeft, valTask,
                   valCache, valResult, newData, pending, batchTask, handed, events,
                   succeeded, reexecuted, wmRead, unflushed>>
    /\ UNCHANGED <<raised, metrics, reported, target>>
    /\ UNCHANGED openConns
    /\ UNCHANGED etlVars

\* the process running the flow dies while a batch is being loaded
crash ==
    /\ mainPc = "batch"
    /\ mainPc' = "idle"
    /\ runEnd' = [status |-> "crashed", error |-> "Crashed", at |-> cfgIdx]
    /\ unflushed' = IF InIncremental
                    THEN [unflushed EXCEPT ![curCfg.name] = @ \cup RowSet(newData)]
                    ELSE unflushed
    /\ UNCHANGED <<configs, source, watermark, entry, cfgIdx, curCfg, runsLeft, valTask,
                   valCache, valResult, newData, pending, batchTask, handed, events,
                   succeeded, reexecuted, wmRead>>
    /\ UNCHANGED <<raised, metrics, reported, target>>
    /\ UNCHANGED openConns
    /\ UNCHANGED etlVars

\* between two runs of the incremental flow a new row lands in the source object
new_rows_land(ts) ==
    LET name == configs[1].name IN
    /\ mainPc = "idle"
    /\ runsLeft > 0
    /\ Len(source[name]) <= MaxRows
    /\ source' = [source EXCEPT ![name] =
                     Append(@, [id |-> Len(@) + 1, ts |-> ts, pk |-> "ok"])]
    /\ UNCHANGED <<configs, watermark, mainPc, entry, cfgIdx, curCfg, runsLeft, runEnd,
                   valTask, valCache, valResult, newData, pending, batchTask, handed,
                   events, succeeded, reexecuted, wmRead, unflushed>>
    /\ UNCHANGED <<raised, metrics, reported, target>>
    /\ UNCHANGED openConns
    /\ UNCHANGED etlVars

-----------------------------------------------------------------------------
(* Initial states and specifications                                       *)

\* lists of 1..n elements of S
ListsOf(S, n) == UNION {[1..k -> S] : k \in 1..n}

InitPipeCommon ==
    /\ mainPc = "idle"
    /\ entry = "main_flow"
    /\ cfgIdx = 1
    /\ curCfg = configs[1]
    /\ runEnd = NoEnd
    /\ valTask = NoTask
    /\ valCache = {}
    /\ valResult = NoResult
    /\ newData = <<>>
    /\ pending = <<>>
    /\ batchTask = NoTask
    /\ handed = <<>>
    /\ events = {}
    /\ succeeded = {}
    /\ reexecuted = {}
    /\ wmRead = 0
    /\ unflushed = [t \in TableNames |-> {}]
    /\ raised = "none"
    /\ metrics = NoMetrics
    /\ reported = <<>>
    /\ target = [t \in TableNames |-> {}]
    /\ openConns = 0

\* the orchestrator's inputs: any list of configs, a source object per
\* configured table (no object is read for the others), an empty watermark store
InitPipe ==
    /\ configs \in ListsOf(TableConfig, MaxConfigs)
    /\ source \in [TableNames -> Datasets(MaxRows, {1}, {"ok", "null"})]
    /\ \A t \in TableNames \ {configs[i].name : i \in 1..Len(configs)} : source[t] = <<>>
    /\ watermark = [t \in TableNames |-> 0]
    /\ runsLeft = MaxMainRuns
    /\ InitPipeCommon

\* the incremental flow's inputs: one config, a source object with any
\* incremental values, any stored watermark
InitInc ==
    /\ configs \in ListsOf({c \in TableConfig : c.name = "customers"}, 1)
    /\ \E d \in Datasets(MaxRows + 1, 1..MaxTs + 1, {"ok"}) :
         source = [t \in TableNames |-> IF t = configs[1].name THEN d ELSE <<>>]
    /\ \E w \in 0..MaxTs :
         watermark = [t \in TableNames |-> IF t = configs[1].name THEN w ELSE 0]
    /\ runsLeft = MaxRuns
    /\ InitPipeCommon

\* the configs built under __main__, over empty source objects
DefaultBatchSize == 50000

InitMain ==
    /\ configs = <<[name |-> "products", incremental_column |-> "none",
                    batch_size |-> DefaultBatchSize],
                   [name |-> "customers", incremental_column |-> "updated_at",
                    batch_size |-> DefaultBatchSize]>>
    /\ source = [t \in TableNames |-> <<>>]
    /\ watermark = [t \in TableNames |-> 0]
    /\ runsLeft = MaxMainRuns
    /\ InitPipeCommon

\* source objects around the size of the validation sample: n rows, those at
\* the positions in nulls without a primary key
SampledTable(n, nulls) ==
    [i \in 1..n |-> [id |-> i, ts |-> 1, pk |-> IF i \in nulls THEN "null" ELSE "ok"]]

\* the configs built under __main__, the customers object being of a size
\* around the sample's, with nulls inside and outside of the sample
InitVal ==
    /\ configs = <<[name |-> "products", incremental_column |-> "none",
                    batch_size |-> DefaultBatchSize],
                   [name |-> "customers", incremental_column |-> "updated_at",
                    batch_size |-> DefaultBatchSize]>>
    /\ \E n \in SampleRows - 1 .. SampleRows + MaxRows - 1 :
         \E nulls \in SUBSET ({1, SampleRows, SampleRows + 1} \cap 1..n) :
            source = [t \in TableNames |->
                         IF t = "customers" THEN SampledTable(n, nulls) ELSE <<>>]
    /\ watermark = [t \in TableNames |-> 0]
    /\ runsLeft = MaxRuns
    /\ InitPipeCommon

\* the two tables of __main__, products loaded in full and customers
\* incrementally, in any order and also twice, over source objects whose rows
\* all have a primary key
InitLoad ==
    /\ \E b \in 1..MaxBatch :
         configs \in [1..2 -> {[name |-> "products", incremental_column |-> "none",
                                batch_size |-> b],
                               [name |-> "customers", incremental_column |-> "updated_at",
                                batch_size |-> b]}]
    /\ source \in [TableNames -> Datasets(MaxRows, {1}, {"ok"})]
    /\ \A t \in TableNames \ {configs[i].name : i \in 1..Len(configs)} : source[t] = <<>>
    /\ watermark = [t \in TableNames |-> 0]
    /\ runsLeft = MaxMainRuns
    /\ InitPipeCommon

\* main_flow run over the list of configs
NextPipe ==
    \/ main_flow_start
    \/ validate_source_data
    \/ data_quality_flow
    \/ main_flow_branch
    \/ incremental_load_flow
    \/ main_flow_full_load
    \/ main_flow_next_batch
    \/ process_data_batch
    \/ main_flow_next_config
    \/ flow_return
    \/ crash

\* the incremental flow run as a flow of its own
NextInc ==
    \/ \E cfg \in RowSet(configs) : invoke_incremental_load_flow(cfg)
    \/ incremental_load_flow
    \/ process_data_batch
    \/ flow_return
    \/ crash
    \/ \E ts \in 1..MaxTs + 1 : new_rows_land(ts)

EtlInit == InitEtl /\ InitMain

PipeInit == InitEtl /\ InitPipe

IncInit == InitEtl /\ InitInc

\* a run of the Retail ETL main_flow on a new warehouse, or after a complete run
RetailInit == (InitEtl \/ InitLoaded) /\ InitMain

\* etl_pipeline.py: main_flow, the raw loads followed by the dimensional build
SpecRetail == RetailInit /\ [][NextRetail]_vars

\* etl_pipeline.py: scheduled runs of load_raw_data_flow
SpecRaw == EtlInit /\ [][NextRaw]_vars

\* etl_pipeline.py: the dimensional build
SpecEtl == EtlInit /\ [][NextEtl]_vars

ValInit == InitEtl /\ InitVal

\* complex_pipeline.py: the orchestrator over source objects larger than the
\* validation sample
SpecVal == ValInit /\ [][NextPipe]_vars

LoadInit == InitEtl /\ InitLoad

\* complex_pipeline.py: the orchestrator loading the tables of __main__
SpecLoad == LoadInit /\ [][NextPipe]_vars

\* complex_pipeline.py: the orchestrator over lists of configs
SpecPipe == PipeInit /\ [][NextPipe]_vars

\* complex_pipeline.py: the incremental flow over watermarks and source data
SpecInc == IncInit /\ [][NextInc]_vars

-----------------------------------------------------------------------------
(* Properties                                                              *)

Ceil(n, b) == (n + b - 1) \div b

RECURSIVE Concat(_)
Concat(ss) == IF ss = <<>> THEN <<>> ELSE Head(ss) \o Concat(Tail(ss))

\* the steps that load a table
LoadSteps == {"incremental_load_flow", "get_data_iterator", "process_data_batch"}

\* validate_source_data has returned for the current config
Validated == valTask.st \in {"completed", "cached"}

\* C1: in every run of load_dimensional_model_flow the fact load executes no
\* statement before every dimension load of the run has completed
C1_FactAfterDimensions ==
    HasExecuted(factTask) => \A d \in Dims : dimTask[d].st = "completed"

\* C2: once a dimension load of a run has ended Failed, no statement of the
\* fact load is executed in that run and the flow does not return normally
\* (it raises DependencyError)
C2_FailedDimensionBlocksFact ==
    [][(\E d \in Dims : dimTask[d].st = "failed")
         => /\ ~(load_fact_sales_truncate \/ load_fact_sales_insert)
            /\ flowPc' # "returned"
            /\ (flowPc' = "raised" => FlowError' = "DependencyError")]_vars

\* C3: when the validated sample of a table holds a null primary key,
\* missing_pk is true and no load step is invoked for the table in the run
C3_NullPkBlocksLoad ==
    (Validated /\ \E r \in RowSet(DfHead(source[curCfg.name], SampleRows)) : r.pk = "null")
        => /\ valResult.missing_pk
           /\ ~valResult.null_check_passed
           /\ events \cap LoadSteps = {}

\* C4: a run of main_flow that ended with a table's terminal failure has
\* processed every config of the list: the failure was the last one's
C4_FailureIsolation ==
    (mainPc = "idle" /\ entry = "main_flow" /\ runEnd.status = "failed")
        => runEnd.at = Len(configs)

\* C5: once a table's load is over, on either path, the batches handed to
\* process_data_batch are ceil(n/b) batches of at most b rows whose
\* concatenation is the loaded dataset
C5_BatchPartition ==
    (mainPc = "advance" /\ events \cap {"get_data_iterator", "load_incremental_data"} # {})
        => /\ Len(handed) = Ceil(Len(newData), curCfg.batch_size)
           /\ \A i \in 1..Len(handed) : Len(handed[i]) <= curCfg.batch_size
           /\ Concat(handed) = newData

\* C6: after an incremental load of at least one row has returned, the stored
\* watermark is the greatest incremental value of the loaded rows, which is
\* not below the watermark read at the start
C6_WatermarkAdvances ==
    (mainPc = "advance" /\ InIncremental /\ handed # <<>>)
        => /\ watermark[curCfg.name] = MaxTsOf(newData)
           /\ watermark[curCfg.name] >= wmRead

\* C7: when the load of extracted rows fails or the run crashes after the
\* extraction, the stored watermark is the one read at the start, and every
\* later extraction returns the rows that were extracted and not loaded
C7_AtLeastOnce ==
    /\ (mainPc = "idle" /\ runEnd.status \in {"failed", "crashed"}
            /\ "load_incremental_data" \in events)
          => watermark[curCfg.name] = wmRead
    /\ (mainPc \in {"batch", "advance"} /\ "load_incremental_data" \in events
            /\ batchTask.st # "completed")
          => unflushed[curCfg.name] \subseteq RowSet(newData)

\* C7 witness: a run re-extracts rows whose load did not complete earlier
C7_Witness ==
    /\ mainPc = "batch"
    /\ InIncremental
    /\ runsLeft < MaxRuns - 1
    /\ unflushed[curCfg.name] # {}
    /\ Len(source[curCfg.name]) > Cardinality(unflushed[curCfg.name])

C9_AtMostOnce == reexecuted = {}

\* C10: the incremental flow invoked for a config without incremental column
\* raises the configuration error at once: the watermark is not read, nothing
\* is extracted or loaded, the full-load path is not taken, the flow run ends
\* Failed and is not attempted again
C10_UnsetColumnRaises ==
    (entry = "incremental_load_flow" /\ ~HasIncremental(curCfg) /\ mainPc # "incremental")
        => /\ mainPc = "idle"
           /\ runEnd.status = "failed"
           /\ runEnd.error = "ValueError"
           /\ events = {"incremental_load_flow"}
           /\ wmRead = 0
           /\ newData = <<>>
           /\ handed = <<>>
           /\ batchTask = NoTask

\* C10 witness: the flow was invoked for such a config and has raised
C10_Witness ==
    /\ entry = "incremental_load_flow"
    /\ ~HasIncremental(curCfg)
    /\ "incremental_load_flow" \in events
    /\ runEnd.error = "ValueError"

\* attempts of a task run whose body has started, the running one included
\* (for a completed run that no longer records its retries: the last one)
Attempts(t) ==
    IF t.st \in {"unsubmitted", "cached"} THEN 0
    ELSE IF t.st = "ready" THEN t.retries
    ELSE t.retries + 1

\* the task runs of the current flow runs
TaskRuns ==
    {ddlTask, factTask, rawDdlTask, valTask, batchTask}
        \cup {dimTask[d] : d \in Dims} \cup {rawTask[t] : t \in RawTables}

\* C11: within one invocation no step is attempted more than 3 times, the
\* first attempt included, and a step that ended Failed was attempted 3 times
C11_RetryCeiling ==
    \A t \in TaskRuns : /\ Attempts(t) <= 3
                        /\ t.st = "failed" => Attempts(t) = 3

\* C12: when a table's load has ended on a chunk whose upsert failed while the
\* warehouse connection was usable, every chunk of that load has been handed
\* to process_data_batch: none is left unattempted
C12_RemainingChunksAttempted ==
    (mainPc = "idle" /\ runEnd.status = "failed" /\ batchTask.st = "failed"
        /\ raised = "upsert_to_snowflake")
        => /\ pending = <<>>
           /\ Concat(handed) = newData

\* C13: an attempt of validate_source_data in which publishing the report
\* failed still returns the validation result, and the table's processing
\* goes on: the task run is neither retried nor Failed, the flow run not failed
C13_ReportingNeverFails ==
    (raised = "create_markdown_artifact")
        => /\ Validated
           /\ valResult = ValidationResults(source[curCfg.name], curCfg)
           /\ mainPc # "idle"

\* a statement of the dimensional build has been issued in the current run
DimensionalBuildStarted ==
    \/ flowPc # "idle"
    \/ ddlTask # NoTask
    \/ \E d \in Dims : dimTask[d] # NoTask
    \/ factTask # NoTask

\* C14: in a run of the Retail ETL main_flow no step of the dimensional build
\* (table creation, dimension load, fact load) starts before every raw load
\* of the run has finished with success
C14_RawLoadBarrier ==
    DimensionalBuildStarted => \A t \in RawTables : rawTask[t].st = "completed"

\* C14 witness: a dimension load and the fact load run after the five raw loads
C14_Witness ==
    /\ \E d \in Dims : dimTask[d].st = "truncated"
    /\ factTask.st = "truncated"
    /\ \A t \in RawTables : rawTask[t].st = "completed"

\* C15: the fact load's INSERT, which joins the dimension tables, never runs
\* while a dimension load is between its TRUNCATE and its INSERT
C15_TruncateLoadAtomic ==
    [][(factTask.st = "truncated" /\ factTask'.st = "completed")
         => \A d \in Dims : dimTask[d].st # "truncated"]_vars

\* C16: whatever loads have run, retried attempts and repeated runs over the
\* same files included, a raw table holds each row of its file at most once:
\* at most one row per primary-key value
C16_RawLoadIsUpsert == \A t \in RawTables : rawRows[t] <= 1

\* the current table's pipeline is over: main_flow moves on to the next config
\* or returns
TableDone == entry = "main_flow" /\ mainPc = "advance"

\* C17: a table's steps follow Pending -> Validating -> {QualityFlagged |
\* Loading} -> {Incremental | Full} -> DimensionalBuild -> Done: a load step
\* has run only after validation returned with null_check_passed true, the
\* incremental path is taken exactly when incremental_column is set and the
\* full path exactly when it is not, and a table that is done has gone
\* through the dimensional build
C17_TableStateMachine ==
    entry = "main_flow" =>
        /\ (events \cap LoadSteps # {}) => (Validated /\ valResult.null_check_passed)
        /\ (mainPc \in {"batch", "iterate", "advance"} /\ valResult.null_check_passed)
              => /\ ("incremental_load_flow" \in events) <=> HasIncremental(curCfg)
                 /\ ("get_data_iterator" \in events) <=> ~HasIncremental(curCfg)
        /\ TableDone => DimensionalBuildStarted

\* rows of the batches handed over whose latest upsert reported success (ok
\* TRUE) or did not (ok FALSE)
RECURSIVE RowsReported(_, _, _)
RowsReported(batches, flags, ok) ==
    IF batches = <<>> THEN 0
    ELSE (IF Head(flags) = ok THEN Len(Head(batches)) ELSE 0)
         + RowsReported(Tail(batches), Tail(flags), ok)

\* C18: when the load of a dataset of n rows is over, the metrics count in
\* processed the rows of the chunks whose upsert reported success, in errors
\* the rows of the chunks whose upsert failed, and the two add up to n
C18_CumulativeMetrics ==
    (mainPc = "advance" /\ handed # <<>>)
        => /\ metrics.processed = RowsReported(handed, reported, TRUE)
           /\ metrics.errors = RowsReported(handed, reported, FALSE)
           /\ metrics.processed + metrics.errors = Len(newData)

\* the incremental extraction of the current run has returned no row
EmptyExtraction == "load_incremental_data" \in events /\ newData = <<>>

\* C19: once the incremental extraction has returned no row, the flow is a
\* no-op that ends Completed: process_data_batch is not invoked, no connection
\* is opened, no error is raised, and no step changes the stored watermark or
\* the target table
C19_EmptyExtractionNoOp ==
    /\ [](EmptyExtraction
            => /\ batchTask = NoTask
               /\ handed = <<>>
               /\ events \cap {"process_data_batch", "get_connection",
                               "upsert_to_snowflake"} = {}
               /\ watermark[curCfg.name] = wmRead
               /\ raised = "none"
               /\ mainPc \in {"advance", "idle"}
               /\ (mainPc = "idle" => runEnd.status = "completed"))
    /\ [][EmptyExtraction' => (target' = target /\ watermark' = watermark)]_vars

\* C19 witness: a run has found no row above the stored watermark in a
\* source object that holds rows, and has returned
C19_Witness ==
    /\ EmptyExtraction
    /\ mainPc = "idle"
    /\ runEnd.status = "completed"
    /\ source[curCfg.name] # <<>>
    /\ wmRead > 0

\* C20: validation reports the row count of the whole source object, also
\* when it is larger than the sample, sets missing_pk exactly when one of the
\* first 1000 rows has no primary key, and leaves the source object as it is
C20_SampleValidation ==
    /\ [](Validated
            => LET table == source[curCfg.name] IN
               /\ valResult.total_rows = Len(table)
               /\ valResult.missing_pk
                     <=> \E i \in 1..Len(table) : i <= SampleRows /\ table[i].pk = "null")
    /\ [][validate_source_data => source' = source]_vars

\* C20 witness: a validated source object of more than 1000 rows whose only
\* row without primary key lies outside of the sample
C20_Witness ==
    /\ Validated
    /\ Len(source[curCfg.name]) > SampleRows
    /\ source[curCfg.name][SampleRows + 1].pk = "null"
    /\ ~valResult.missing_pk
    /\ valResult.total_rows = SampleRows + 1

\* C21: every attempt of load_dimension_table starts from the emptied table,
\* and every attempt that succeeds, the first one or a retry, in the first
\* run or in a later one, leaves exactly one copy of the transform query's
\* output in the dimension table
C21_WholesaleRetry ==
    /\ [](\A d \in Dims : /\ dimTask[d].st = "truncated" => dimRows[d] = 0
                          /\ dimTask[d].st = "completed" => dimRows[d] = 1)
    /\ [][\A d \in Dims :
            (dimTask[d].st # "completed" /\ dimTask'[d].st = "completed")
                => (dimTask[d].st = "truncated" /\ dimRows'[d] = 1)]_vars

\* C21 witness: in a second run a dimension has been reloaded to one copy
\* while the retry of another dimension's load has truncated its table again
C21_Witness ==
    /\ etlRun = 2
    /\ \E d \in Dims : dimTask[d].st = "completed" /\ dimRows[d] = 1
    /\ \E d \in Dims : /\ dimTask[d].st = "truncated"
                       /\ dimTask[d].retries > 0
                       /\ dimRows[d] = 0

Returned(t) == t.st \in {"completed", "cached"}

\* C23: in a run, a raw load is submitted only after create_raw_tables has
\* returned, and a dimension load is submitted or the fact load started only
\* after create_dimension_tables has returned; when the creation task has
\* failed no load of its flow is submitted
C23_CreationPrecedesLoading ==
    /\ (\E t \in RawTables : rawTask[t] # NoTask) => Returned(rawDdlTask)
    /\ ((\E d \in Dims : dimTask[d] # NoTask) \/ factTask # NoTask) => Returned(ddlTask)
    /\ rawDdlTask.st = "failed" => \A t \in RawTables : rawTask[t] = NoTask
    /\ ddlTask.st = "failed" => (factTask = NoTask /\ \A d \in Dims : dimTask[d] = NoTask)

\* C23 witness: both creation tasks have run their body, the raw loads and a
\* dimension load have been submitted and the fact load started
C23_Witness ==
    /\ rawDdlTask.st = "completed"
    /\ ddlTask.st = "completed"
    /\ \A t \in RawTables : rawTask[t] # NoTask
    /\ \E d \in Dims : dimTask[d] # NoTask
    /\ factTask # NoTask

====
